---- MODULE Spec2Model ----
(***************************************************************************)
(* ConnectAssist (src/app.py): a Streamlit dashboard whose screens call a  *)
(* remote inference service through three client functions.                *)
(*                                                                         *)
(* Strings are sequences of tokens.  A token is a chunk of characters; the *)
(* strings of the model are cut so that the character prefixes the program *)
(* tests ("Error") and the ones the specification names ("HTTP error       *)
(* occurred", "An error occurred") are whole first tokens, hence           *)
(* str.startswith is the sequence-prefix test on tokens.                   *)
(*                                                                         *)
(* Python and JSON values are tagged records:                              *)
(*   [t |-> "none"], [t |-> "str", s |-> tokens], [t |-> "num", n |-> i],  *)
(*   [t |-> "list", items |-> seq], [t |-> "dict", f |-> function].        *)
(***************************************************************************)
EXTENDS Integers, Sequences, FiniteSets, TLC

VARIABLES
    API_KEY,        \* os.getenv("GROQ_API_KEY") of the process
    app_mode,       \* value of the sidebar selectbox
    issue_text,     \* Troubleshooting text area
    ts_image,       \* Troubleshooting file uploader (NoFile or a file)
    uploaded_file,  \* Network Insights CSV uploader (NoFile or a file)
    report_text,    \* Connectivity Solutions text area
    cs_image,       \* Connectivity Solutions file uploader
    event,          \* the user event that triggered the latest script run
    shown,          \* screen handler entered by the latest run, or "none"
    buttons,        \* buttons rendered by the latest run
    requests,       \* remote requests issued by the latest run, in order
    replies,        \* what the service answered to each client call of the latest run
    results,        \* values the client functions returned in the latest run
    rendered,       \* outcome elements (st.error/warning/success/write) of the latest run
    halted,         \* the latest run ended in st.stop()
    crashed,        \* the latest run ended in an uncaught exception
    presses,        \* history: number of button presses so far
    pressed,        \* history: number of presses of each button so far
    totalCalls      \* history: remote requests issued so far

vars == <<API_KEY, app_mode, issue_text, ts_image, uploaded_file, report_text,
          cs_image, event, shown, buttons, requests, replies, results, rendered,
          halted, crashed, presses, pressed, totalCalls>>

-----------------------------------------------------------------------------
(* Bounds *)

MaxPresses == 2

-----------------------------------------------------------------------------
(* Python values *)

PyNone == [t |-> "none"]
PyStr(s) == [t |-> "str", s |-> s]
PyNum(n) == [t |-> "num", n |-> n]
PyList(items) == [t |-> "list", items |-> items]
PyDict(f) == [t |-> "dict", f |-> f]
EmptyDict == PyDict(<<>>)

IsStr(v) == v.t = "str"

TypeName(v) ==
    CASE v.t = "none" -> "NoneType"
      [] v.t = "str"  -> "str"
      [] v.t = "num"  -> "int"
      [] v.t = "list" -> "list"
      [] v.t = "dict" -> "dict"

\* str(v) as an f-string formats it
Format(v) ==
    CASE v.t = "none" -> <<"None">>
      [] v.t = "str"  -> v.s
      [] v.t = "num"  -> <<ToString(v.n)>>
      [] v.t = "list" -> <<"[...]">>
      [] v.t = "dict" -> <<"{...}">>

\* str.startswith
StartsWith(s, p) == Len(s) >= Len(p) /\ SubSeq(s, 1, Len(p)) = p

\* the "in" operator on strings
Contains(s, sub) ==
    \E i \in 0..(Len(s) - Len(sub)) : SubSeq(s, i + 1, i + Len(sub)) = sub

\* result of evaluating an expression: a value or a raised exception
Ret(v) == [k |-> "ret", v |-> v]
Raise(cls, msg) == [k |-> "raise", cls |-> cls, msg |-> msg]
Bind(r, F(_)) == IF r.k = "raise" THEN r ELSE F(r.v)

\* variant: d[key], which raises on an absent key
DictGetStrict(v, key, default) ==
    IF v.t = "dict"
    THEN IF key \in DOMAIN v.f THEN Ret(v.f[key])
         ELSE Raise("KeyError", <<"'", key, "'">>)
    ELSE Raise("AttributeError",
               <<"'", TypeName(v), "' object has no attribute 'get'">>)

\* dict.get(key, default); any other type has no attribute "get"
DictGet(v, key, default) ==
    IF v.t = "dict"
    THEN Ret(IF key \in DOMAIN v.f THEN v.f[key] ELSE default)
    ELSE Raise("AttributeError",
               <<"'", TypeName(v), "' object has no attribute 'get'">>)

\* v[0]
Index0(v) ==
    CASE v.t = "list" ->
            IF Len(v.items) > 0 THEN Ret(v.items[1])
            ELSE Raise("IndexError", <<"list index out of range">>)
      [] v.t = "str" ->
            IF Len(v.s) > 0 THEN Ret(PyStr(<<"<first character>">>))
            ELSE Raise("IndexError", <<"string index out of range">>)
      [] v.t = "dict" -> Raise("KeyError", <<"0">>)
      [] OTHER -> Raise("TypeError",
                        <<"'", TypeName(v), "' object is not subscriptable">>)

-----------------------------------------------------------------------------
(* The remote service: what one requests.post can meet *)

LLAMA_TEXT_API_URL == <<"https://api.groq.com/openai/v1/chat/completions">>
LLAMA_IMAGE_API_URL == <<"https://api.groq.com/llama3/image">>

Reply1 == <<"Restart the router">>
Reply2 == <<"Error", ": no diagnosis available">>
Reply3 == <<"Antenna misaligned">>

B_html      == <<"<html>Bad Gateway</html>">>
B_empty     == <<>>
B_toplist   == <<"[]">>
B_noChoices == <<"{}">>
B_choicesEmpty == <<"{\"choices\": []}">>
B_noMessage == <<"{\"choices\": [{}]}">>
B_messageStr == <<"{\"choices\": [{\"message\": \"hi\"}]}">>
B_noContent == <<"{\"choices\": [{\"message\": {}}]}">>
B_content1  == <<"{\"choices\": [{\"message\": {\"content\": \"Restart the router\"}}]}">>
B_content2  == <<"{\"choices\": [{\"message\": {\"content\": \"Error: no diagnosis available\"}}]}">>
B_contentNull == <<"{\"choices\": [{\"message\": {\"content\": null}}]}">>
B_response  == <<"{\"response\": \"Antenna misaligned\"}">>
B_responseNull == <<"{\"response\": null}">>
B_errJson   == <<"{\"error\": {\"message\": \"Invalid API Key\"}}">>

Bodies == {B_html, B_empty, B_toplist, B_noChoices, B_choicesEmpty,
           B_noMessage, B_messageStr, B_noContent, B_content1, B_content2,
           B_contentNull, B_response, B_responseNull, B_errJson}

Statuses == {101, 200, 201, 304, 404, 503}

\* the bodies the service is taken to send with each status
BodiesOf(status) ==
    CASE status = 200 -> Bodies \ {B_empty, B_errJson}
      [] status = 201 -> {B_content1}
      [] status = 101 -> {B_empty}
      [] status = 304 -> {B_content1}
      [] status = 404 -> {B_errJson}
      [] status = 503 -> {B_html}

TransportErrors ==
    { Raise("ConnectionError", <<"Max retries exceeded (connection refused)">>),
      Raise("Timeout", <<"Connection to api.groq.com timed out">>) }

Responses ==
    UNION { { [k |-> "resp", status |-> st, text |-> b] : b \in BodiesOf(st) }
            : st \in Statuses }

Outcomes == TransportErrors \cup Responses

NoOutcome == [k |-> "unused"]

OneField(key, v) == PyDict([x \in {key} |-> v])
Choices(v) == OneField("choices", v)
WithMessage(m) == Choices(PyList(<<OneField("message", m)>>))
WithContent(c) == WithMessage(OneField("content", c))

NotJson == [t |-> "invalid"]

\* the JSON document a body text denotes
ParseJson(text) ==
    CASE text = B_toplist      -> PyList(<<>>)
      [] text = B_noChoices    -> EmptyDict
      [] text = B_choicesEmpty -> Choices(PyList(<<>>))
      [] text = B_noMessage    -> Choices(PyList(<<EmptyDict>>))
      [] text = B_messageStr   -> WithMessage(PyStr(<<"hi">>))
      [] text = B_noContent    -> WithMessage(EmptyDict)
      [] text = B_content1     -> WithContent(PyStr(Reply1))
      [] text = B_content2     -> WithContent(PyStr(Reply2))
      [] text = B_contentNull  -> WithContent(PyNone)
      [] text = B_response     -> OneField("response", PyStr(Reply3))
      [] text = B_responseNull -> OneField("response", PyNone)
      [] text = B_errJson      ->
            OneField("error", OneField("message", PyStr(<<"Invalid API Key">>)))
      [] OTHER -> NotJson

\* requests.post: the transport raises, or hands back the response
Post(o) == IF o.k = "raise" THEN o ELSE Ret(o)

\* variant: only server errors raise
RaiseForStatusServerOnly(resp, url) ==
    IF 500 <= resp.status /\ resp.status < 600
    THEN Raise("HTTPError", <<ToString(resp.status), " Server Error: ",
                              "<reason>", " for url: ">> \o url)
    ELSE Ret(resp)

\* Response.raise_for_status
RaiseForStatus(resp, url) ==
    IF 400 <= resp.status /\ resp.status < 500
    THEN Raise("HTTPError", <<ToString(resp.status), " Client Error: ",
                              "<reason>", " for url: ">> \o url)
    ELSE IF 500 <= resp.status /\ resp.status < 600
    THEN Raise("HTTPError", <<ToString(resp.status), " Server Error: ",
                              "<reason>", " for url: ">> \o url)
    ELSE Ret(resp)

\* variant: an unparseable body is taken for an empty object
JsonLenient(resp) ==
    IF ParseJson(resp.text) = NotJson THEN Ret(EmptyDict)
    ELSE Ret(ParseJson(resp.text))

\* Response.json
Json(resp) ==
    IF ParseJson(resp.text) = NotJson
    THEN Raise("JSONDecodeError", <<"Expecting value: line 1 column 1 (char 0)">>)
    ELSE Ret(ParseJson(resp.text))

\* "except requests.exceptions.HTTPError" catches this class
IsHTTPError(cls) == cls = "HTTPError"

HttpPrefix == <<"HTTP error occurred">>
AnErrPrefix == <<"An error occurred">>
ErrorPrefix == <<"Error">>

\* the two except clauses shared by the three client functions
Handlers(r, o) ==
    IF r.k = "ret" THEN r.v
    ELSE IF IsHTTPError(r.cls)
    THEN PyStr(HttpPrefix \o <<": ">> \o r.msg \o <<" - ">> \o o.text)
    ELSE PyStr(AnErrPrefix \o <<": ">> \o r.msg)

-----------------------------------------------------------------------------
(* The client functions.  Each is given the outcome o its requests.post     *)
(* meets and yields the requests it sent and the value it returned.         *)

Bearer == <<"Bearer ">> \o Format(API_KEY)

Fallback == <<"No response received.">>
AnalysisFallback == <<"No analysis received.">>

\* variant: reads the field "text" of the message
ChatContentText(resp, default) ==
    Bind(Json(resp), LAMBDA j :
    Bind(DictGet(j, "choices", PyList(<<EmptyDict>>)), LAMBDA c :
    Bind(Index0(c), LAMBDA c0 :
    Bind(DictGet(c0, "message", EmptyDict), LAMBDA m :
    DictGet(m, "text", PyStr(default))))))

\* response.json().get("choices", [{}])[0].get("message", {}).get("content", default)
ChatContent(resp, default) ==
    Bind(Json(resp), LAMBDA j :
    Bind(DictGet(j, "choices", PyList(<<EmptyDict>>)), LAMBDA c :
    Bind(Index0(c), LAMBDA c0 :
    Bind(DictGet(c0, "message", EmptyDict), LAMBDA m :
    DictGet(m, "content", PyStr(default))))))

\* the payload and headers of a chat request
ChatRequest(model, content, max_tokens, temperature) ==
    [url |-> LLAMA_TEXT_API_URL,
     headers |-> [Authorization |-> Bearer, ContentType |-> "application/json"],
     json |-> [model |-> model,
               messages |-> <<[role |-> "user", content |-> content]>>,
               max_tokens |-> max_tokens,
               temperature |-> temperature]]

\* the try block of the two chat functions
ChatTry(o, default) ==
    Bind(Post(o), LAMBDA response :
    Bind(RaiseForStatus(response, LLAMA_TEXT_API_URL), LAMBDA ok :
    ChatContent(ok, default)))

\* variant: a failed request is sent a second time
get_llama_text_response_retry(text, o) ==
    LET request == ChatRequest("llama-3.2-chat", text, 150, "0.7")
        first == ChatTry(o, Fallback)
    IN  [sent |-> IF first.k = "raise" THEN <<request, request>> ELSE <<request>>,
         ret |-> Handlers(first, o)]

get_llama_text_response(text, o) ==
    [sent |-> <<ChatRequest("llama-3.2-chat", text, 150, "0.7")>>,
     ret |-> Handlers(ChatTry(o, Fallback), o)]

get_llama_image_response(image_bytes, o) ==
    LET try == Bind(Post(o), LAMBDA response :
               Bind(RaiseForStatus(response, LLAMA_IMAGE_API_URL), LAMBDA ok :
               Bind(Json(ok), LAMBDA j :
               DictGet(j, "response", PyStr(Fallback)))))
    IN  [sent |-> <<[url |-> LLAMA_IMAGE_API_URL,
                      headers |-> [Authorization |-> Bearer],
                      files |-> [image_file |-> <<"image.png", image_bytes, "image/png">>]]>>,
         ret |-> Handlers(try, o)]

\* data.describe().to_json()
Describe(data) == <<"<describe().to_json() of ", data.name, ">">>

analyze_network_data(data, o) ==
    LET summary == Describe(data)
    IN  [sent |-> <<ChatRequest("llama-3.2-analysis",
                        <<"Analyze the following network performance data summary:\n">>
                        \o summary, 200, "0.5")>>,
         ret |-> Handlers(ChatTry(o, AnalysisFallback), o)]

-----------------------------------------------------------------------------
(* The screens.  A handler is given the widget values of this run, the      *)
(* button whose click triggered it ("" when none did) and the outcomes its  *)
(* remote calls meet; it yields the buttons it rendered, the client calls   *)
(* it made, the outcome elements it displayed and whether it raised.        *)

NoFile == [name |-> "<no file>"]
Photo == [name |-> "site.png", bytes |-> <<"<bytes of site.png>">>]
Images == {Photo}

BadCsv == [name |-> "broken.csv", parses |-> FALSE, columns |-> {}]
FullCsv == [name |-> "full.csv", parses |-> TRUE,
            columns |-> {"signal_strength", "bandwidth_usage"}]
PartialCsv == [name |-> "partial.csv", parses |-> TRUE,
               columns |-> {"bandwidth_usage"}]
CsvFiles == {BadCsv, FullCsv, PartialCsv}

Texts == {<<>>, <<"signal drops every evening">>}

Screens == {"Home", "Troubleshooting", "Training", "Network Insights",
            "Connectivity Solutions"}

NoButton == ""

Elem(kind, text) == [kind |-> kind, text |-> text]

View(btns, calls, out, raised) ==
    [buttons |-> btns, calls |-> calls, out |-> out, raised |-> raised]

\* uploaded_image.read()
Read(file) == file.bytes

\* "if response.startswith("Error"): st.error(response) else: st.success(label); st.write(response)"
\* a value that is not a str has no attribute startswith
ShowResponse(response, label) ==
    IF ~IsStr(response)
    THEN [out |-> <<Elem("exception",
                         <<"'", TypeName(response),
                           "' object has no attribute 'startswith'">>)>>,
          raised |-> TRUE]
    ELSE IF StartsWith(response.s, ErrorPrefix)
    THEN [out |-> <<Elem("error", response.s)>>, raised |-> FALSE]
    ELSE [out |-> <<Elem("success", label), Elem("write", response.s)>>,
          raised |-> FALSE]

home == View({}, <<>>, <<>>, FALSE)

troubleshooting_assistant(text, uploaded_image, clicked, o) ==
    LET call1 == get_llama_text_response(text, o)
        show1 == ShowResponse(call1.ret, <<"**Diagnostic Suggestions:**">>)
        first ==
            IF clicked = "Get Suggestions"
            THEN IF text # <<>>
                 THEN View({"Get Suggestions"}, <<call1>>, show1.out, show1.raised)
                 ELSE View({"Get Suggestions"}, <<>>,
                           <<Elem("warning", <<"Please enter a description of the issue.">>)>>,
                           FALSE)
            ELSE View({"Get Suggestions"}, <<>>, <<>>, FALSE)
        call2 == get_llama_image_response(Read(uploaded_image), o)
        show2 == ShowResponse(call2.ret, <<"**Image Analysis:**">>)
    IN  IF first.raised THEN first
        ELSE IF uploaded_image # NoFile
        THEN IF clicked = "Analyze Image"
             THEN View(first.buttons \cup {"Analyze Image"}, first.calls \o <<call2>>,
                       first.out \o show2.out, show2.raised)
             ELSE View(first.buttons \cup {"Analyze Image"}, first.calls,
                       first.out, FALSE)
        ELSE first

training_modules(clicked) ==
    IF clicked = "Watch Tutorial 1"
    THEN View({"Watch Tutorial 1"}, <<>>,
              <<Elem("video", <<"https://www.youtube.com/watch?v=dQw4w9WgXcQ">>)>>, FALSE)
    ELSE View({"Watch Tutorial 1"}, <<>>, <<>>, FALSE)

\* the notices of the two chart columns
ColumnNotices(data) ==
    (IF "signal_strength" \in data.columns THEN <<>>
     ELSE <<Elem("write", <<"**signal_strength** column not found.">>)>>) \o
    (IF "bandwidth_usage" \in data.columns THEN <<>>
     ELSE <<Elem("write", <<"**bandwidth_usage** column not found.">>)>>)

network_insights(file, clicked, o) ==
    LET call == analyze_network_data(file, o)
        show == ShowResponse(call.ret, <<"**Analysis Results:**">>)
    IN  IF file = NoFile THEN View({}, <<>>, <<>>, FALSE)
        ELSE IF ~file.parses
        THEN View({}, <<>>,
                  <<Elem("error", <<"Error processing the file: ", "<parser error>">>)>>,
                  FALSE)
        ELSE IF clicked = "Analyze Data"
        THEN IF show.raised
             THEN View({"Analyze Data"}, <<call>>,
                       ColumnNotices(file) \o
                       <<Elem("error", <<"Error processing the file: ">> \o show.out[1].text)>>,
                       FALSE)
             ELSE View({"Analyze Data"}, <<call>>, ColumnNotices(file) \o show.out, FALSE)
        ELSE View({"Analyze Data"}, <<>>, ColumnNotices(file), FALSE)

\* variant: the action runs as soon as a photo is there
OnlyPhotoProvided(text, uploaded_image) == uploaded_image # NoFile

\* "if report_text and uploaded_image"
BothProvided(text, uploaded_image) == text # <<>> /\ uploaded_image # NoFile

\* variant: the results are joined by a single line break
CombineNewline(text_response, image_response) ==
    PyStr(Format(text_response) \o <<"\n">> \o Format(image_response))

\* f"{text_response}\n\n{image_response}"
Combine(text_response, image_response) ==
    PyStr(Format(text_response) \o <<"\n\n">> \o Format(image_response))

connectivity_solutions(text, uploaded_image, clicked, o1, o2) ==
    LET text_call == get_llama_text_response(text, o1)
        image_call == get_llama_image_response(Read(uploaded_image), o2)
        combined_recommendation == Combine(text_call.ret, image_call.ret)
        show == ShowResponse(combined_recommendation, <<"**Recommendations:**">>)
    IN  IF clicked = "Generate Recommendations"
        THEN IF BothProvided(text, uploaded_image)
             THEN View({"Generate Recommendations"}, <<text_call, image_call>>,
                       show.out, show.raised)
             ELSE View({"Generate Recommendations"}, <<>>,
                       <<Elem("warning", <<"Please provide both user reports and site photos.">>)>>,
                       FALSE)
        ELSE View({"Generate Recommendations"}, <<>>, <<>>, FALSE)

\* widget values of one run
Widgets(it, ti, uf, rt, ci) ==
    [issue_text |-> it, ts_image |-> ti, uploaded_file |-> uf,
     report_text |-> rt, cs_image |-> ci]

BlankWidgets == Widgets(<<>>, NoFile, NoFile, <<>>, NoFile)

main(mode, w, clicked, o1, o2) ==
    CASE mode = "Home" -> home
      [] mode = "Troubleshooting" ->
            troubleshooting_assistant(w.issue_text, w.ts_image, clicked, o1)
      [] mode = "Training" -> training_modules(clicked)
      [] mode = "Network Insights" -> network_insights(w.uploaded_file, clicked, o1)
      [] mode = "Connectivity Solutions" ->
            connectivity_solutions(w.report_text, w.cs_image, clicked, o1, o2)

\* variant: only an unset variable counts as missing
MissingUnsetOnly(key) == key = PyNone

\* "if not API_KEY": None and the empty string are falsy
Missing(key) == key = PyNone \/ key = PyStr(<<>>)

\* one run of the script, top to bottom
Script(key, mode, w, clicked, o1, o2) ==
    IF Missing(key)
    THEN [shown |-> "none", halted |-> TRUE,
          view |-> View({}, <<>>,
                        <<Elem("error", <<"API Key not found. Please set the GROQ_API_KEY environment variable.">>)>>,
                        FALSE)]
    ELSE [shown |-> mode, halted |-> FALSE, view |-> main(mode, w, clicked, o1, o2)]

-----------------------------------------------------------------------------
(* The session: every user event reruns the script from the top.           *)

Keys == {PyNone, PyStr(<<>>), PyStr(<<"gsk_live_key">>)}

AllButtons == {"Get Suggestions", "Analyze Image", "Watch Tutorial 1",
               "Analyze Data", "Generate Recommendations"}

Event(type, target) == [type |-> type, target |-> target]

CurrentWidgets == Widgets(issue_text, ts_image, uploaded_file, report_text, cs_image)

RECURSIVE RequestsOf(_)
RequestsOf(calls) ==
    IF calls = <<>> THEN <<>> ELSE Head(calls).sent \o RequestsOf(Tail(calls))
ResultsOf(calls) == [i \in 1..Len(calls) |-> calls[i].ret]

\* the run that event ev triggers, with button clicked reported as pressed
Run(mode, w, ev, clicked, o1, o2) ==
    \E r \in {Script(API_KEY, mode, w, clicked, o1, o2)} :
        /\ app_mode' = mode
        /\ issue_text' = w.issue_text
        \* the uploader below "Get Suggestions" is not reached by a run that
        \* raises there; a widget a run does not reach may lose its value
        /\ ts_image' \in (IF r.view.raised /\ clicked = "Get Suggestions"
                          THEN {w.ts_image, NoFile} ELSE {w.ts_image})
        /\ uploaded_file' = w.uploaded_file
        /\ report_text' = w.report_text
        /\ cs_image' = w.cs_image
        /\ event' = ev
        /\ shown' = r.shown
        /\ buttons' = r.view.buttons
        /\ requests' = RequestsOf(r.view.calls)
        /\ replies' = SubSeq(<<o1, o2>>, 1, Len(r.view.calls))
        /\ results' = ResultsOf(r.view.calls)
        /\ rendered' = r.view.out
        /\ halted' = r.halted
        /\ crashed' = r.view.raised
        /\ totalCalls' = totalCalls + Len(r.view.calls)
        /\ UNCHANGED API_KEY

NoPress == UNCHANGED <<presses, pressed>>

Press(b) ==
    /\ b \in buttons
    /\ presses < MaxPresses
    /\ presses' = presses + 1
    /\ pressed' = [pressed EXCEPT ![b] = @ + 1]

\* the server is up and no browser has opened the page: the script has
\* not run yet
Init ==
    /\ API_KEY \in Keys
    /\ app_mode = "Home"
    /\ issue_text = <<>>
    /\ ts_image = NoFile
    /\ uploaded_file = NoFile
    /\ report_text = <<>>
    /\ cs_image = NoFile
    /\ event = Event("start", "")
    /\ shown = "none"
    /\ buttons = {}
    /\ requests = <<>>
    /\ replies = <<>>
    /\ results = <<>>
    /\ rendered = <<>>
    /\ halted = FALSE
    /\ crashed = FALSE
    /\ presses = 0
    /\ pressed = [b \in AllButtons |-> 0]
    /\ totalCalls = 0

\* the page is opened, or opened again: a session with default widget
\* values runs the script
OpenPage ==
    /\ Run("Home", BlankWidgets, Event("open", ""), NoButton, NoOutcome, NoOutcome)
    /\ NoPress

\* the sidebar selectbox; the widgets of the screen left are not rendered
\* any more and lose their values
SelectScreen(m) ==
    /\ shown \in Screens
    /\ m # app_mode
    /\ Run(m, BlankWidgets, Event("select", m), NoButton, NoOutcome, NoOutcome)
    /\ NoPress

EditIssueText(t) ==
    /\ shown = "Troubleshooting"
    /\ t # issue_text
    /\ Run(app_mode, [CurrentWidgets EXCEPT !.issue_text = t],
           Event("edit", "issue_text"), NoButton, NoOutcome, NoOutcome)
    /\ NoPress

UploadIssueImage(f) ==
    /\ shown = "Troubleshooting"
    /\ ~crashed
    /\ f # ts_image
    /\ Run(app_mode, [CurrentWidgets EXCEPT !.ts_image = f],
           Event("upload", "ts_image"), NoButton, NoOutcome, NoOutcome)
    /\ NoPress

UploadCsv(f) ==
    /\ shown = "Network Insights"
    /\ f # uploaded_file
    /\ Run(app_mode, [CurrentWidgets EXCEPT !.uploaded_file = f],
           Event("upload", "uploaded_file"), NoButton, NoOutcome, NoOutcome)
    /\ NoPress

EditReportText(t) ==
    /\ shown = "Connectivity Solutions"
    /\ t # report_text
    /\ Run(app_mode, [CurrentWidgets EXCEPT !.report_text = t],
           Event("edit", "report_text"), NoButton, NoOutcome, NoOutcome)
    /\ NoPress

UploadSitePhoto(f) ==
    /\ shown = "Connectivity Solutions"
    /\ f # cs_image
    /\ Run(app_mode, [CurrentWidgets EXCEPT !.cs_image = f],
           Event("upload", "cs_image"), NoButton, NoOutcome, NoOutcome)
    /\ NoPress

PressGetSuggestions(o) ==
    /\ Press("Get Suggestions")
    /\ Run(app_mode, CurrentWidgets, Event("press", "Get Suggestions"),
           "Get Suggestions", o, NoOutcome)

PressAnalyzeImage(o) ==
    /\ Press("Analyze Image")
    /\ Run(app_mode, CurrentWidgets, Event("press", "Analyze Image"),
           "Analyze Image", o, NoOutcome)

PressWatchTutorial ==
    /\ Press("Watch Tutorial 1")
    /\ Run(app_mode, CurrentWidgets, Event("press", "Watch Tutorial 1"),
           "Watch Tutorial 1", NoOutcome, NoOutcome)

PressAnalyzeData(o) ==
    /\ Press("Analyze Data")
    /\ Run(app_mode, CurrentWidgets, Event("press", "Analyze Data"),
           "Analyze Data", o, NoOutcome)

PressGenerateRecommendations(o1, o2) ==
    /\ Press("Generate Recommendations")
    /\ Run(app_mode, CurrentWidgets, Event("press", "Generate Recommendations"),
           "Generate Recommendations", o1, o2)

Next ==
    \/ OpenPage
    \/ \E m \in Screens : SelectScreen(m)
    \/ \E t \in Texts : EditIssueText(t)
    \/ \E f \in Images \cup {NoFile} : UploadIssueImage(f)
    \/ \E f \in CsvFiles \cup {NoFile} : UploadCsv(f)
    \/ \E t \in Texts : EditReportText(t)
    \/ \E f \in Images \cup {NoFile} : UploadSitePhoto(f)
    \/ \E o \in Outcomes : PressGetSuggestions(o)
    \/ \E o \in Outcomes : PressAnalyzeImage(o)
    \/ PressWatchTutorial
    \/ \E o \in Outcomes : PressAnalyzeData(o)
    \/ \E o1 \in Outcomes, o2 \in Outcomes : PressGenerateRecommendations(o1, o2)

Spec == Init /\ [][Next]_vars

-----------------------------------------------------------------------------
(* Vocabulary of the properties.  Call i of the latest run sent requests[i], *)
(* was answered replies[i] and returned results[i].                          *)

Calls == DOMAIN results

IsChat(i) == requests[i].url = LLAMA_TEXT_API_URL
IsText(i) == IsChat(i) /\ requests[i].json.model = "llama-3.2-chat"
IsAnalysis(i) == IsChat(i) /\ requests[i].json.model = "llama-3.2-analysis"
IsImage(i) == requests[i].url = LLAMA_IMAGE_API_URL

Answered(i) == replies[i].k = "resp"
Is2xx(status) == 200 <= status /\ status < 300
Answered2xx(i) == Answered(i) /\ Is2xx(replies[i].status)
Document(i) == ParseJson(replies[i].text)

Begins(v, prefix) == IsStr(v) /\ StartsWith(v.s, prefix)
FailureString(v) == Begins(v, HttpPrefix) \/ Begins(v, AnErrPrefix)

Pressed(b) == event = Event("press", b)
Warned == \E n \in DOMAIN rendered : rendered[n].kind = "warning"

HasKey(j, key) == j.t = "dict" /\ key \in DOMAIN j.f

\* an object in which a key on the path choices[0].message.content is absent
AbsentChatKey(j) ==
    /\ j.t = "dict"
    /\ \/ ~HasKey(j, "choices")
       \/ /\ j.f["choices"].t = "list"
          /\ Len(j.f["choices"].items) > 0
          /\ LET c0 == j.f["choices"].items[1]
             IN  /\ c0.t = "dict"
                 /\ \/ ~HasKey(c0, "message")
                    \/ /\ c0.f["message"].t = "dict"
                       /\ ~HasKey(c0.f["message"], "content")

EmptyChoices(j) ==
    /\ HasKey(j, "choices")
    /\ j.f["choices"].t = "list"
    /\ Len(j.f["choices"].items) = 0

AbsentImageKey(j) == j.t = "dict" /\ ~HasKey(j, "response")

\* a document with a string at choices[0].message.content
ExpectedChatShape(j) ==
    /\ HasKey(j, "choices")
    /\ j.f["choices"].t = "list"
    /\ Len(j.f["choices"].items) > 0
    /\ HasKey(j.f["choices"].items[1], "message")
    /\ HasKey(j.f["choices"].items[1].f["message"], "content")
    /\ j.f["choices"].items[1].f["message"].f["content"].t = "str"

ContentOf(j) == j.f["choices"].items[1].f["message"].f["content"]

ExpectedImageShape(j) == HasKey(j, "response") /\ j.f["response"].t = "str"

\* a document on which the walk to choices[0].message.content hits a value
\* of the wrong type, or an empty list
ChatWalkFails(j) ==
    \/ j.t # "dict"
    \/ /\ HasKey(j, "choices")
       /\ \/ j.f["choices"].t # "list"
          \/ Len(j.f["choices"].items) = 0
          \/ j.f["choices"].items[1].t # "dict"
          \/ /\ HasKey(j.f["choices"].items[1], "message")
             /\ j.f["choices"].items[1].f["message"].t # "dict"

-----------------------------------------------------------------------------
(* C1 *)

\* C1 as stated: every answer with a status outside 2xx (1xx, 3xx, 4xx, 5xx)
\* makes the client function return a string that starts with
\* "HTTP error occurred" and contains the raw body.
C1_EveryNon2xx ==
    \A i \in Calls :
        (Answered(i) /\ ~Is2xx(replies[i].status)) =>
            /\ Begins(results[i], HttpPrefix)
            /\ Contains(results[i].s, replies[i].text)

\* C1 amended: every answer with a 4xx or 5xx status makes the client
\* function return a string that starts with "HTTP error occurred" and
\* contains the raw body.
C1_ErrorStatus ==
    \A i \in Calls :
        (Answered(i) /\ 400 <= replies[i].status /\ replies[i].status < 600) =>
            /\ Begins(results[i], HttpPrefix)
            /\ Contains(results[i].s, replies[i].text)

C1_Witness ==
    \E i \in Calls :
        /\ Answered(i) /\ replies[i].status = 404 /\ replies[i].text = B_errJson
        /\ Begins(results[i], HttpPrefix)
        /\ Contains(results[i].s, B_errJson)

-----------------------------------------------------------------------------
(* C2 *)

\* C2: whatever the remote call meets, each client function returns a
\* string, and the screen's prefix check and rendering do not raise.
C2_AlwaysAString ==
    /\ \A i \in Calls : IsStr(results[i])
    /\ ~crashed

-----------------------------------------------------------------------------
(* C3 *)

\* C3 as stated: a 2xx body lacking the expected field at any level (no
\* "choices", empty "choices", no "message", no "content"; no "response"
\* for the image endpoint) makes the text submission, the image submission
\* and the analysis helper return exactly "No response received.".
C3_FallbackAtAnyLevel ==
    \A i \in Calls :
        (/\ Answered2xx(i)
         /\ \/ IsChat(i) /\ (AbsentChatKey(Document(i)) \/ EmptyChoices(Document(i)))
            \/ IsImage(i) /\ AbsentImageKey(Document(i)))
        => results[i] = PyStr(Fallback)

\* C3 amended: on a 2xx body in which a key on the path is absent the text
\* and image submissions return "No response received." and the analysis
\* helper returns "No analysis received."; on an empty "choices" list the
\* chat functions return a string starting with "An error occurred".
C3_FallbackOnAbsentKey ==
    \A i \in Calls :
        Answered2xx(i) =>
            /\ (IsText(i) /\ AbsentChatKey(Document(i))) => results[i] = PyStr(Fallback)
            /\ (IsImage(i) /\ AbsentImageKey(Document(i))) => results[i] = PyStr(Fallback)
            /\ (IsAnalysis(i) /\ AbsentChatKey(Document(i)))
                    => results[i] = PyStr(AnalysisFallback)
            /\ (IsChat(i) /\ EmptyChoices(Document(i))) => Begins(results[i], AnErrPrefix)

C3_Witness ==
    \E i \in Calls :
        /\ IsText(i) /\ Answered2xx(i) /\ replies[i].text = B_noMessage
        /\ results[i] = PyStr(Fallback)

-----------------------------------------------------------------------------
(* C4 *)

\* C4: when Connectivity Solutions runs with both inputs and one of the two
\* sub-calls returns a failure string, the combined result is rendered as an
\* error and not as a successful recommendation.
C4_FailureShownAsError ==
    (/\ Pressed("Generate Recommendations")
     /\ Len(results) = 2
     /\ FailureString(results[1]) \/ FailureString(results[2]))
    => /\ \E n \in DOMAIN rendered : rendered[n].kind = "error"
       /\ \A n \in DOMAIN rendered : rendered[n].kind # "success"

-----------------------------------------------------------------------------
(* C5 *)

\* C5 as stated: each gated action can be pressed while its input is absent,
\* and the press issues no remote call and shows a warning: the
\* Troubleshooting text action with an empty description, the
\* Troubleshooting image action with no image, Connectivity Solutions with
\* the report or the image missing.
C5_WarningForEveryGatedAction ==
    /\ (shown = "Troubleshooting" /\ issue_text = <<>>) =>
            /\ "Get Suggestions" \in buttons
            /\ Pressed("Get Suggestions") => (requests = <<>> /\ Warned)
    /\ (shown = "Troubleshooting" /\ ~crashed /\ ts_image = NoFile) =>
            /\ "Analyze Image" \in buttons
            /\ Pressed("Analyze Image") => (requests = <<>> /\ Warned)
    /\ (shown = "Connectivity Solutions" /\ (report_text = <<>> \/ cs_image = NoFile)) =>
            /\ "Generate Recommendations" \in buttons
            /\ Pressed("Generate Recommendations") => (requests = <<>> /\ Warned)

\* C5 amended: pressing the Troubleshooting text action with an empty
\* description, or Connectivity Solutions with the report or the image
\* missing, issues no remote call and shows a warning; the Troubleshooting
\* image action is not rendered while no image is uploaded, so it is never
\* pressed then and no image request is issued.
C5_GatedActions ==
    /\ (Pressed("Get Suggestions") /\ issue_text = <<>>) => (requests = <<>> /\ Warned)
    /\ (Pressed("Generate Recommendations") /\ (report_text = <<>> \/ cs_image = NoFile))
            => (requests = <<>> /\ Warned)
    /\ (shown = "Troubleshooting" /\ ts_image = NoFile) =>
            /\ "Analyze Image" \notin buttons
            /\ ~Pressed("Analyze Image")
            /\ \A i \in DOMAIN requests : requests[i].url # LLAMA_IMAGE_API_URL

C5_Witness ==
    /\ Pressed("Generate Recommendations")
    /\ report_text = <<>> /\ cs_image # NoFile
    /\ requests = <<>> /\ Warned

-----------------------------------------------------------------------------
(* C6 *)

\* C6: Connectivity Solutions pressed with a report and an image issues
\* exactly one text submission and then exactly one image submission,
\* whatever the text call returned, and the last element rendered is the
\* text result, a blank-line separator and the image result (each result as
\* formatted into the string; a string is formatted as itself).
C6_TwoCallsConcatenated ==
    (Pressed("Generate Recommendations") /\ report_text # <<>> /\ cs_image # NoFile)
    => /\ Len(requests) = 2
       /\ Len(results) = 2
       /\ requests[1].url = LLAMA_TEXT_API_URL
       /\ requests[1].json.messages[1].content = report_text
       /\ requests[2].url = LLAMA_IMAGE_API_URL
       /\ requests[2].files.image_file[2] = cs_image.bytes
       /\ rendered # <<>>
       /\ rendered[Len(rendered)].text =
              Format(results[1]) \o <<"\n\n">> \o Format(results[2])

C6_Witness ==
    /\ Pressed("Generate Recommendations")
    /\ Len(requests) = 2
    /\ Begins(results[1], HttpPrefix)
    /\ results[2] = PyStr(Reply3)
    /\ rendered[Len(rendered)].text = results[1].s \o <<"\n\n">> \o Reply3

-----------------------------------------------------------------------------
(* C7 *)

\* C7 as stated: a connection failure, a timeout, a 2xx body that is not
\* valid JSON or a 2xx body that is not of the expected shape makes the
\* client function return a string starting with "An error occurred".
C7_EveryOtherFailure ==
    \A i \in Calls :
        (\/ replies[i].k = "raise"
         \/ /\ Answered2xx(i)
            /\ \/ Document(i) = NotJson
               \/ IsChat(i) /\ ~ExpectedChatShape(Document(i))
               \/ IsImage(i) /\ ~ExpectedImageShape(Document(i)))
        => Begins(results[i], AnErrPrefix)

\* C7 amended: a connection failure, a timeout, a 2xx body that is not valid
\* JSON, or a 2xx body on which the walk to the field hits a value of the
\* wrong type or an empty "choices" list, makes the client function return a
\* string starting with "An error occurred".
C7_RaisedFailure ==
    \A i \in Calls :
        (\/ replies[i].k = "raise"
         \/ /\ Answered2xx(i)
            /\ \/ Document(i) = NotJson
               \/ IsChat(i) /\ ChatWalkFails(Document(i))
               \/ IsImage(i) /\ Document(i).t # "dict")
        => Begins(results[i], AnErrPrefix)

C7_Witness ==
    \E i \in Calls :
        /\ IsImage(i) /\ Answered2xx(i) /\ replies[i].text = B_html
        /\ Begins(results[i], AnErrPrefix)

-----------------------------------------------------------------------------
(* C8 *)

\* the prompt the screen of the latest press handed to the text submission
Prompt == IF event.target = "Get Suggestions" THEN issue_text ELSE report_text

\* C8: on a 2xx answer with a string at choices[0].message.content,
\* get_llama_text_response has sent exactly one request, whose only message
\* is the user message carrying the prompt unchanged, and returns that
\* content exactly.
C8_ContentVerbatim ==
    \A i \in Calls :
        (IsText(i) /\ Answered2xx(i) /\ ExpectedChatShape(Document(i))) =>
            /\ results[i] = ContentOf(Document(i))
            /\ requests[i].json.messages = <<[role |-> "user", content |-> Prompt]>>
            /\ Cardinality({n \in DOMAIN requests : requests[n].url = LLAMA_TEXT_API_URL}) = 1

C8_Witness ==
    \E i \in Calls :
        /\ Pressed("Get Suggestions")
        /\ IsText(i) /\ replies[i].k = "resp" /\ replies[i].status = 200
        /\ replies[i].text = B_content1
        /\ results[i] = PyStr(Reply1)
        /\ issue_text = <<"signal drops every evening">>

-----------------------------------------------------------------------------
(* C9 *)

\* C9: with the credential unset or empty, every run of the script stops at
\* the startup error: in no state is a screen rendered or a button offered,
\* and no remote call is ever issued.
C9_NoCredentialNoScreen ==
    (API_KEY = PyNone \/ API_KEY = PyStr(<<>>)) =>
        /\ shown = "none"
        /\ buttons = {}
        /\ requests = <<>>
        /\ totalCalls = 0
        /\ event.type # "start" =>
                /\ halted
                /\ Len(rendered) = 1 /\ rendered[1].kind = "error"

C9_Witness ==
    /\ API_KEY = PyStr(<<>>)
    /\ event.type = "open"
    /\ halted
    /\ rendered # <<>> /\ rendered[1].kind = "error"

-----------------------------------------------------------------------------
(* C10 *)

\* C10: requests are issued only by button presses and never repeated: the
\* requests issued so far number at most one per press of a Troubleshooting
\* or Network Insights action plus two per press of Connectivity Solutions,
\* and a run triggered by anything else, or on Home or Training, issues none.
C10_CallsOnlyOnPress ==
    /\ totalCalls <= pressed["Get Suggestions"] + pressed["Analyze Image"]
                     + pressed["Analyze Data"]
                     + 2 * pressed["Generate Recommendations"]
    /\ event.type # "press" => requests = <<>>
    /\ (event.type = "press" /\ event.target \in
            {"Get Suggestions", "Analyze Image", "Analyze Data"}) => Len(requests) <= 1
    /\ Pressed("Generate Recommendations") => Len(requests) <= 2
    /\ shown \in {"none", "Home", "Training"} => requests = <<>>

C10_Witness ==
    /\ totalCalls >= 2
    /\ event.type = "edit"
    /\ requests = <<>>

====
